---- MODULE Spec2Model ----
(***************************************************************************)
(* Model of review_parser: the Yandex Maps review scraper                   *)
(* (src/src/review_parser/yandex_maps/scraper.py) and the organisation id   *)
(* extractor (src/src/review_parser/utils.py).                              *)
(*                                                                         *)
(* Strings are sequences of symbols.  A symbol is an indivisible run of     *)
(* characters written as a TLA+ string ("a", "|", " ", "None", "2025");    *)
(* the symbols used are uniquely decodable, so two sequences are equal      *)
(* exactly when the strings they stand for are equal.  An optional value    *)
(* is a sequence of length at most one: None is <<>>, Some(x) is <<x>>.     *)
(***************************************************************************)
EXTENDS Integers, Sequences, FiniteSets, TLC

VARIABLES
    pc,             \* position of scrape_reviews / which pure function is applied
    url,            \* the url argument (after normalize_url once started)
    org_id,         \* result of extract_org_id
    limit,          \* ScrapeOptions.limit
    shotPath,       \* ScrapeOptions.debug_screenshot_path is set
    profile,        \* behaviour family of the page (environment)
    loaded,         \* feed page: number of feed reviews loaded so far
    playwright,     \* state of the async_playwright() context manager
    browser,        \* state of the browser object
    context,        \* state of the browsing context
    round,          \* number of iterations of the collector loop started
    stable_rounds,  \* _collect_reviews_while_scrolling.stable_rounds
    out,            \* _collect_reviews_while_scrolling.out
    seen,           \* _collect_reviews_while_scrolling.seen
    exitBy,         \* how the collector returned
    raw_items,      \* value returned by the collector (None until it returns)
    reviews,        \* the list built by the final pass
    result,         \* outcome of scrape_reviews
    lastOp,         \* history: the last page operation and how it went
    clock,          \* what datetime.now() returns during the run
    hist,           \* history: distinct raw items in order of first extraction
    lastNew,        \* history: last round that added a new unique item
    item,           \* argument of _to_review (pure-function specification)
    ret             \* result of the pure function applied

vars == <<pc, url, org_id, limit, shotPath, profile, loaded, playwright, browser,
          context, round, stable_rounds, out, seen, exitBy, raw_items, reviews,
          result, lastOp, clock, hist, lastNew, item, ret>>

----------------------------------------------------------------------------
(* Bounds of the model                                                     *)

MaxSnap == 2        \* longest snapshot of the mixed page
MixRounds == 3      \* rounds in which the mixed page shows reviews
MaxLimit == 2       \* largest configured cap
FeedLen == 13       \* number of reviews behind the feed page
FeedWindow == 2     \* rendered window of the virtualized feed
FeedGap == 18       \* empty rounds before the feed loads its next review
MaxUrlPieces == 4   \* longest url, in pieces
MaxAncestors == 2   \* most ancestors of a review node

(* Program constants                                                       *)

MaxRounds == 260
StableThreshold == 20
MinOrgIdDigits == 6

----------------------------------------------------------------------------
(* Optional values and generic sequence helpers                            *)

None == <<>>
Some(x) == <<x>>
Val(o) == o[1]

Max(a, b) == IF a >= b THEN a ELSE b
Min(a, b) == IF a <= b THEN a ELSE b

RECURSIVE SeqsUpTo(_, _)
SeqsUpTo(S, n) ==
    IF n = 0 THEN {<<>>}
    ELSE LET shorter == SeqsUpTo(S, n - 1)
         IN shorter \cup {Append(s, x) : s \in {t \in shorter : Len(t) = n - 1}, x \in S}

Range(s) == {s[i] : i \in 1..Len(s)}

IsPrefix(s, t) == Len(s) <= Len(t) /\ SubSeq(t, 1, Len(s)) = s

\* s is an order-preserving subsequence of t
RECURSIVE IsSubsequence(_, _)
IsSubsequence(s, t) ==
    IF s = <<>> THEN TRUE
    ELSE IF t = <<>> THEN FALSE
    ELSE IF Head(s) = Head(t) THEN IsSubsequence(Tail(s), Tail(t))
    ELSE IsSubsequence(s, Tail(t))

----------------------------------------------------------------------------
(* Whitespace: String.prototype.trim (in-page script) and str.strip        *)
(* (Python) do not remove the same characters.  "<US>" stands for U+001F   *)
(* (whitespace for Python only), "<FEFF>" for U+FEFF (for JavaScript only).*)

JsWhitespace == {" ", "<FEFF>"}
PyWhitespace == {" ", "<US>"}

RECURSIVE LStrip(_, _)
LStrip(s, ws) == IF s # <<>> /\ Head(s) \in ws THEN LStrip(Tail(s), ws) ELSE s

RECURSIVE RStrip(_, _)
RStrip(s, ws) ==
    IF s # <<>> /\ s[Len(s)] \in ws THEN RStrip(SubSeq(s, 1, Len(s) - 1), ws) ELSE s

JsTrim(s) == RStrip(LStrip(s, JsWhitespace), JsWhitespace)
PyStrip(s) == RStrip(LStrip(s, PyWhitespace), PyWhitespace)

----------------------------------------------------------------------------
(* The in-page extraction script of _extract_reviews_dom                   *)
(*                                                                         *)
(* A rendered review node (.business-review-view) is a record of what its   *)
(* sub-elements hold; a field is None when the element is missing:          *)
(*   ratingEl    aria-label of '.business-review-view__rating [aria-label]' *)
(*   otherEl     aria-label of the first '[aria-label]' element of the node *)
(*   authorName, authorInfo, date, body   textContent of the element        *)

RatingWords == {"rating"}       \* symbols matching /оцен|рейтинг|rating/i
RatingDigits == ("1" :> 1) @@ ("2" :> 2) @@ ("3" :> 3) @@ ("4" :> 4) @@ ("5" :> 5)

RECURSIVE FirstIn(_, _)
\* first symbol of s that is in S, as an option
FirstIn(s, S) ==
    IF s = <<>> THEN None
    ELSE IF Head(s) \in S THEN Some(Head(s))
    ELSE FirstIn(Tail(s), S)

pickText(el) ==
    IF el = None \/ Val(el) = <<>> THEN None ELSE Some(JsTrim(Val(el)))

\* JavaScript truthiness of a string-or-null and of a number-or-null
TruthyText(t) == t # None /\ Val(t) # <<>>
TruthyNum(n) == n # None /\ Val(n) # 0

\* Python values of a raw item's rating field: an int or a str
PyInt(n) == [int |-> n]
PyStr(s) == [str |-> s]
IsPyInt(v) == DOMAIN v = {"int"}

\* a JavaScript number-or-null as it arrives in Python
FromJsNum(n) == IF n = None THEN None ELSE Some(PyInt(Val(n)))

parseRating(root) ==
    LET r == IF root.ratingEl # None THEN root.ratingEl ELSE root.otherEl IN
    IF r = None THEN None
    ELSE IF Range(Val(r)) \cap RatingWords = {} THEN None
    ELSE LET m == FirstIn(Val(r), DOMAIN RatingDigits)
         IN IF m = None THEN None ELSE Some(RatingDigits[Val(m)])

parseAuthor(root) ==
    IF TruthyText(pickText(root.authorName)) THEN pickText(root.authorName)
    ELSE pickText(root.authorInfo)

parseDate(root) == pickText(root.date)

parseBody(root) == pickText(root.body)

\* the test of line 300: the node is skipped
DropNode(rating, text) == ~TruthyNum(rating) /\ ~TruthyText(text)

RECURSIVE _extract_reviews_dom(_)
\* nodes: the .business-review-view nodes of the document, in document order
_extract_reviews_dom(nodes) ==
    IF nodes = <<>> THEN <<>>
    ELSE LET n == Head(nodes)
             rating == parseRating(n)
             dateText == parseDate(n)
             author == parseAuthor(n)
             text == parseBody(n)
             rest == _extract_reviews_dom(Tail(nodes))
         IN IF DropNode(rating, text) THEN rest
            ELSE <<[author |-> author, rating |-> FromJsNum(rating),
                    date_text |-> dateText, text |-> text]>> \o rest

----------------------------------------------------------------------------
(* The pages (environment)                                                 *)

Node(ratingEl, otherEl, authorName, authorInfo, date, body) ==
    [ratingEl |-> ratingEl, otherEl |-> otherEl, authorName |-> authorName,
     authorInfo |-> authorInfo, date |-> date, body |-> body]

\* an ordinary review: author "a", five stars, a date, a body
NodeA == Node(Some(<<"rating", " ", "5", " ", "of", " ", "5">>), None,
              Some(<<" ", "a">>), None, Some(<<"vchera">>), Some(<<"x", " ">>))
\* the same review rendered with other markup: it extracts to the same item
NodeA2 == Node(None, Some(<<"rating", " ", "5">>),
               Some(<<" ">>), Some(<<"a">>), Some(<<"vchera">>), Some(<<"x">>))
\* no rating; the body is a single U+001F
NodeUS == Node(None, None, None, None, None, Some(<<"<US>">>))
\* a rating and a numeric date with a time of day, no body
NodeR == Node(Some(<<"rating", " ", "0", "3">>), None, Some(<<"b">>), None,
              Some(<<"12.05.2024", " ", "14:30">>), None)
\* neither a rating nor a body: an aria-label without rating semantics, blank body
NodeEmpty == Node(None, Some(<<"like", " ", "4">>), Some(<<"c">>), None,
                  Some(<<"vchera">>), Some(<<" ">>))

MixNodes == {NodeA, NodeA2, NodeUS, NodeR, NodeEmpty}

\* NodeA written the day before yesterday
NodeA3 == Node(Some(<<"rating", " ", "5", " ", "of", " ", "5">>), None,
               Some(<<"a">>), None, Some(<<"pozavchera">>), Some(<<"x">>))
\* NodeR with a body that reads "None"
NodeNone == Node(Some(<<"rating", " ", "3">>), None, Some(<<"b">>), None,
                 Some(<<"12.05.2024", " ", "14:30">>), Some(<<"None">>))
\* two reviews with a "|" in the author name and in the date text
NodeP == Node(Some(<<"rating", " ", "5">>), None, Some(<<"a", "|", "b">>), None,
              Some(<<"c">>), Some(<<"x">>))
NodeQ == Node(Some(<<"rating", " ", "5">>), None, Some(<<"a">>), None,
              Some(<<"b", "|", "c">>), Some(<<"x">>))

\* one author, rating and body under two date texts that are not dates
NodeC == Node(Some(<<"rating", " ", "5">>), None, Some(<<"a">>), None,
              Some(<<"c">>), Some(<<"x">>))
NodeD == Node(Some(<<"rating", " ", "5">>), None, Some(<<"a">>), None,
              Some(<<"po", " ", "umolchaniyu">>), Some(<<"x">>))

\* pairs of different reviews that a page can show side by side
ClashPairs == {<<NodeA, NodeA3>>, <<NodeR, NodeNone>>, <<NodeP, NodeQ>>,
               <<NodeC, NodeD>>}

RECURSIVE Repeat(_, _)
Repeat(x, n) == IF n = 0 THEN <<>> ELSE Append(Repeat(x, n - 1), x)

\* the decimal digits of a natural number
DigitSym == <<"0", "1", "2", "3", "4", "5", "6", "7", "8", "9">>

RECURSIVE NatDigits(_)
NatDigits(n) == IF n < 10 THEN <<DigitSym[n + 1]>>
                ELSE Append(NatDigits(n \div 10), DigitSym[(n % 10) + 1])

\* the reviews behind the virtualized feed: FeedLen distinct ordinary reviews
FeedNode(i) == Node(Some(<<"rating", " ", "4">>), None, Some(<<"u">>), None,
                    Some(<<"vchera">>), Some(Repeat("a", i)))
Feed == [i \in 1..FeedLen |-> FeedNode(i)]

\* the review that an endless feed renders in round i: a new author each round
StreamNode(i) == Node(Some(<<"rating", " ", "4">>), None, Some(NatDigits(i)), None,
                      Some(<<"vchera">>), Some(<<"s">>))

\* The documents the page can show when the extraction script runs, with the
\* number of feed reviews loaded by then.  The mixed page shows any nodes in
\* any order during the first MixRounds rounds and an empty list afterwards.
\* The feed page is a slow virtualized list: it renders the last
\* FeedWindow reviews loaded, and loads its next review only after FeedGap
\* rounds in a row without a new one.  The stream page is an endless feed that
\* renders one review never seen before in every round.  The clash page shows
\* one of the pairs of ClashPairs in the first round and nothing afterwards.
FeedSnapshot(n) == SubSeq(Feed, Max(1, n - FeedWindow + 1), n)

Snapshots ==
    IF profile = "mix"
    THEN {[nodes |-> ns, loaded |-> loaded] :
            ns \in IF round <= MixRounds THEN SeqsUpTo(MixNodes, MaxSnap) ELSE {<<>>}}
    ELSE IF profile = "feed"
    THEN {[nodes |-> FeedSnapshot(n), loaded |-> n] :
            n \in {loaded} \cup (IF loaded < FeedLen /\ stable_rounds >= FeedGap
                                 THEN {loaded + 1} ELSE {})}
    ELSE IF profile = "clash"
    THEN {[nodes |-> ns, loaded |-> loaded] :
            ns \in IF round = 1 THEN ClashPairs ELSE {<<>>}}
    ELSE {[nodes |-> <<StreamNode(round)>>, loaded |-> loaded]}

----------------------------------------------------------------------------
(* _collect_reviews_while_scrolling: the Merge step and the convergence    *)
(* check                                                                   *)

\* (v or "")
OrEmpty(o) == IF o = None THEN <<>> ELSE Val(o)

\* str() of a Python int or str
PyStrOf(v) == IF IsPyInt(v)
              THEN (IF v.int < 0 THEN <<"-">> \o NatDigits(0 - v.int) ELSE NatDigits(v.int))
              ELSE v.str

\* str() of an optional value, as interpolated by an f-string
PyStrOpt(o) == IF o = None THEN <<"None">> ELSE PyStrOf(Val(o))

\* the dedup key of lines 155-159
CollectorKey(it) ==
    PyStrip(OrEmpty(it.author)) \o <<"|">> \o PyStrip(OrEmpty(it.date_text))
        \o <<"|">> \o PyStrOpt(it.rating) \o <<"|">> \o PyStrip(OrEmpty(it.text))

\* line 160
IsDuplicateMut(key, seenKeys) == FALSE
IsDuplicate(key, seenKeys) == key \in seenKeys

\* line 163
AccumulateMut(acc, it) == <<it>> \o acc
Accumulate(acc, it) == Append(acc, it)

\* line 165
CapReachedMut(n, lim) == FALSE
CapReached(n, lim) == lim # None /\ n >= Val(lim)

\* out[:limit] for a non-negative limit
Truncate(s, n) == SubSeq(s, 1, Min(n, Len(s)))

RECURSIVE MergeItemsMut(_, _, _)
\* the loop without the return of line 166: the cap is looked at after the loop
MergeItemsMut(items, lim, st) ==
    IF items = <<>> THEN [st EXCEPT !.returned = st.new > 0 /\ CapReached(Len(st.out), lim)]
    ELSE LET it == Head(items)
             key == CollectorKey(it)
         IN IF IsDuplicate(key, st.seen) THEN MergeItemsMut(Tail(items), lim, st)
            ELSE MergeItemsMut(Tail(items), lim,
                               [out |-> Accumulate(st.out, it), seen |-> st.seen \cup {key},
                                new |-> st.new + 1, returned |-> FALSE])

\* the accumulator replaced by the snapshot of the round
MergeItemsSnapMut(items, lim, st) ==
    LET keys == {CollectorKey(items[i]) : i \in 1..Len(items)}
    IN [out |-> items, seen |-> st.seen \cup keys,
        new |-> Cardinality(keys \ st.seen), returned |-> FALSE]

RECURSIVE MergeItems(_, _, _)
\* the for loop of lines 153-166 over the remaining items; st is the loop state:
\* out, seen, new_in_round, and returned = TRUE once line 166 has returned
MergeItems(items, lim, st) ==
    IF items = <<>> THEN st
    ELSE LET it == Head(items)
             key == CollectorKey(it)
         IN IF IsDuplicate(key, st.seen) THEN MergeItems(Tail(items), lim, st)
            ELSE LET acc == Accumulate(st.out, it)
                     st2 == [out |-> acc, seen |-> st.seen \cup {key},
                             new |-> st.new + 1, returned |-> FALSE]
                 IN IF CapReached(Len(acc), lim)
                    THEN [st2 EXCEPT !.returned = TRUE]
                    ELSE MergeItems(Tail(items), lim, st2)

\* lines 168-171
NextStableMut(new, stable) == IF new = 0 THEN stable + 1 ELSE stable
NextStable(new, stable) == IF new = 0 THEN stable + 1 ELSE 0

\* line 174
ConvergedMut(stable) == stable > StableThreshold
Converged(stable) == stable >= StableThreshold

\* line 140: the 260 iterations of the for loop are used up after round r
LoopExhaustedMut(r) == FALSE
LoopExhausted(r) == r >= MaxRounds

\* history: the distinct raw items in order of first extraction
RECURSIVE NoteItems(_, _)
NoteItems(h, items) ==
    IF items = <<>> THEN h
    ELSE NoteItems(IF Head(items) \in Range(h) THEN h ELSE Append(h, Head(items)),
                   Tail(items))

----------------------------------------------------------------------------
(* Best-effort candidate loops and the mandatory wait                      *)

\* what a candidate locator does: count() is 0, count() raises, the click
\* succeeds, the click raises (error or timeout)
CandidateOutcomes == {"absent", "count_error", "click_ok", "click_error"}

RECURSIVE TryCandidatesFrom(_, _)
\* the loops of lines 93-99, 110-116, 185-192 from candidate i on: the index of
\* the candidate clicked (0: none), and whether an exception escapes the loop
TryCandidatesFrom(outcomes, i) ==
    IF i > Len(outcomes) THEN [clicked |-> 0, raised |-> FALSE]
    ELSE IF outcomes[i] = "click_ok" THEN [clicked |-> i, raised |-> FALSE]
    ELSE TryCandidatesFrom(outcomes, i + 1)

RECURSIVE TryCandidatesFromMut(_, _)
TryCandidatesFromMut(outcomes, i) ==
    IF i > Len(outcomes) THEN [clicked |-> 0, raised |-> FALSE]
    ELSE IF outcomes[i] = "click_ok" THEN [clicked |-> i, raised |-> FALSE]
    ELSE IF outcomes[i] = "click_error" THEN [clicked |-> 0, raised |-> TRUE]
    ELSE TryCandidatesFromMut(outcomes, i + 1)

_try_accept_cookiesMut(outcomes) == TryCandidatesFromMut(outcomes, 1)
_try_accept_cookies(outcomes) == TryCandidatesFrom(outcomes, 1)

ActivateReviewsTab(outcomes) == TryCandidatesFrom(outcomes, 1)

_click_show_more_if_present(outcomes) == TryCandidatesFrom(outcomes, 1)

CookieCandidates == 2       \* lines 89-92
TabLocators == 4            \* lines 104-109
ShowMoreLocators == 2       \* lines 181-184
ReviewSelectors == 4        \* lines 121-126

RECURSIVE WaitFrom(_, _)
\* _wait_for_any_selector from selector i on; found[i] tells whether
\* wait_for_selector finds selector i within the timeout
WaitFrom(found, i) ==
    IF i > Len(found) THEN [ok |-> FALSE, tried |-> Len(found), raised |-> Len(found) > 0]
    ELSE IF found[i] THEN [ok |-> TRUE, tried |-> i, raised |-> FALSE]
    ELSE WaitFrom(found, i + 1)

_wait_for_any_selectorMut(found) ==
    IF found[1] THEN [ok |-> TRUE, tried |-> 1, raised |-> FALSE]
    ELSE [ok |-> FALSE, tried |-> 1, raised |-> TRUE]
_wait_for_any_selector(found) == WaitFrom(found, 1)

----------------------------------------------------------------------------
(* Calendar arithmetic of datetime / timedelta                             *)

MINYEAR == 1
MAXYEAR == 9999
MaxTimedeltaDays == 999999999

IsLeap(y) == y % 4 = 0 /\ (y % 100 # 0 \/ y % 400 = 0)

DaysInMonth(y, m) ==
    IF m = 2 THEN (IF IsLeap(y) THEN 29 ELSE 28)
    ELSE IF m \in {4, 6, 9, 11} THEN 30 ELSE 31

DaysBeforeYear(y) ==
    LET p == y - 1 IN p * 365 + (p \div 4) - (p \div 100) + (p \div 400)

RECURSIVE DaysBeforeMonth(_, _)
DaysBeforeMonth(y, m) ==
    IF m = 1 THEN 0 ELSE DaysBeforeMonth(y, m - 1) + DaysInMonth(y, m - 1)

ToOrdinal(y, m, d) == DaysBeforeYear(y) + DaysBeforeMonth(y, m) + d

MaxOrdinal == ToOrdinal(MAXYEAR, 12, 31)

\* a datetime value; tod is the time of day in seconds after midnight
DateTime(y, m, d, tod) == [year |-> y, month |-> m, day |-> d, tod |-> tod]

\* datetime(year, month, day) raises ValueError outside the calendar
ValidDate(y, m, d) ==
    /\ MINYEAR <= y /\ y <= MAXYEAR
    /\ 1 <= m /\ m <= 12
    /\ 1 <= d /\ d <= DaysInMonth(y, m)

\* the date of the n-th day of the calendar, 1 <= n <= MaxOrdinal
FromOrdinal(n) ==
    LET y0 == ((n - 1) \div 366) + 1
        y == CHOOSE c \in y0..(y0 + 30) : DaysBeforeYear(c) < n /\ n <= DaysBeforeYear(c + 1)
        r == n - DaysBeforeYear(y)
        m == CHOOSE c \in 1..12 :
                DaysBeforeMonth(y, c) < r /\ r <= DaysBeforeMonth(y, c) + DaysInMonth(y, c)
    IN DateTime(y, m, r - DaysBeforeMonth(y, m), 0)

\* now - timedelta(days=n), truncated to the date: OverflowError when the
\* timedelta or the difference is out of range
MinusDays(t, n) ==
    LET o == ToOrdinal(t.year, t.month, t.day) - n IN
    IF n > MaxTimedeltaDays \/ o < 1 \/ o > MaxOrdinal
    THEN [raised |-> TRUE, value |-> None]
    ELSE [raised |-> FALSE, value |-> Some(FromOrdinal(o))]

----------------------------------------------------------------------------
(* Date texts.  Words and numbers are single symbols, written in Latin      *)
(* transliteration of the Russian of the source:                            *)
(*   segodnya = сегодня, vchera = вчера, pozavchera = позавчера,            *)
(*   dn / dnya / dney = дн / дня / дней, nazad = назад, nedeli = недели,    *)
(*   otzyvov = отзывов, po umolchaniyu = по умолчанию, and the twelve       *)
(*   month names in the genitive.                                           *)

\* numeric symbols: value and number of digits
NumTok ==
    ("0" :> [v |-> 0, d |-> 1]) @@ ("1" :> [v |-> 1, d |-> 1]) @@
    ("3" :> [v |-> 3, d |-> 1]) @@ ("4" :> [v |-> 4, d |-> 1]) @@
    ("29" :> [v |-> 29, d |-> 2]) @@ ("30" :> [v |-> 30, d |-> 2]) @@
    ("31" :> [v |-> 31, d |-> 2]) @@ ("317" :> [v |-> 317, d |-> 3]) @@
    ("0000" :> [v |-> 0, d |-> 4]) @@ ("2023" :> [v |-> 2023, d |-> 4]) @@
    ("2024" :> [v |-> 2024, d |-> 4]) @@ ("2025" :> [v |-> 2025, d |-> 4]) @@
    ("800000" :> [v |-> 800000, d |-> 6]) @@
    ("1000000000" :> [v |-> 1000000000, d |-> 10])

\* lines 363-376
months ==
    ("yanvarya" :> 1) @@ ("fevralya" :> 2) @@ ("marta" :> 3) @@ ("aprelya" :> 4) @@
    ("maya" :> 5) @@ ("iyunya" :> 6) @@ ("iyulya" :> 7) @@ ("avgusta" :> 8) @@
    ("sentyabrya" :> 9) @@ ("oktyabrya" :> 10) @@ ("noyabrya" :> 11) @@
    ("dekabrya" :> 12)

\* symbols made of the letters [а-яё] only
CyrWords ==
    DOMAIN months \cup {"segodnya", "vchera", "pozavchera", "dn", "dnya", "dney",
                        "nazad", "nedeli", "otzyvov", "po", "umolchaniyu", "slovo"}

\* str.lower() of a symbol
LowerSym(c) ==
    IF c = "Vchera" THEN "vchera"
    ELSE IF c = "Sentyabrya" THEN "sentyabrya"
    ELSE c

PyLower(s) == [i \in 1..Len(s) |-> LowerSym(s[i])]

\* the symbols in which a substring occurs
HasOtzyv == {"otzyvov"}                         \* "отзыв"
HasSegodnya == {"segodnya"}                     \* "сегодня"
HasVchera == {"vchera", "pozavchera"}           \* "вчера"
HasDn == {"dn", "dnya", "dney", "segodnya"}     \* "дн"
HasNed == {"nedeli"}                            \* "нед"

ContainsAny(s, S) == Range(s) \cap S # {}

\* "по умолчанию" in low
ContainsPoUmolchaniyuMut(s) == FALSE
ContainsPoUmolchaniyu(s) ==
    \E i \in 1..(Len(s) - 2) :
        s[i] = "po" /\ s[i + 1] = " " /\ s[i + 2] = "umolchaniyu"

RECURSIVE SplitFrom(_, _, _)
\* the maximal runs of non-whitespace symbols of s (cur: the run being read)
SplitFrom(s, cur, acc) ==
    IF s = <<>> THEN (IF cur = <<>> THEN acc ELSE Append(acc, cur))
    ELSE IF Head(s) \in PyWhitespace
         THEN SplitFrom(Tail(s), <<>>, IF cur = <<>> THEN acc ELSE Append(acc, cur))
         ELSE SplitFrom(Tail(s), Append(cur, Head(s)), acc)

Tokens(s) == SplitFrom(s, <<>>, <<>>)

IsNum(t) == Len(t) = 1 /\ t[1] \in DOMAIN NumTok
IsCyr(t) == Len(t) = 1 /\ t[1] \in CyrWords
NumOf(t) == NumTok[t[1]]

\* re.search(r"\b(\d{1,2})\s+([а-яё]+)(?:\s+(\d{4}))?\b", low): the token index
\* of the leftmost match, 0 when there is none
DayMonthMatch(T) ==
    LET hits == {i \in 1..(Len(T) - 1) :
                    IsNum(T[i]) /\ NumOf(T[i]).d <= 2 /\ IsCyr(T[i + 1])}
    IN IF hits = {} THEN 0 ELSE CHOOSE i \in hits : \A j \in hits : i <= j

\* group 3 of the match at i participates
HasYearGroupMut(T, i) == FALSE
HasYearGroup(T, i) == i + 2 <= Len(T) /\ IsNum(T[i + 2]) /\ NumOf(T[i + 2]).d = 4

\* re.search(r"\b(\d+)\s+(дн|дня|дней)\s+назад\b", low)
DaysAgoMatch(T) ==
    LET hits == {i \in 1..(Len(T) - 2) :
                    IsNum(T[i]) /\ T[i + 1] \in {<<"dn">>, <<"dnya">>, <<"dney">>}
                                /\ T[i + 2] = <<"nazad">>}
    IN IF hits = {} THEN 0 ELSE CHOOSE i \in hits : \A j \in hits : i <= j

\* dtparser.parse(s, dayfirst=True, fuzzy=True) of the dateutil library, for
\* the strings of the model: a datetime, or an exception
DateutilParse(s, now) ==
    IF s = <<"317">>
        THEN [raised |-> FALSE, value |-> Some(DateTime(317, now.month, now.day, 0))]
    ELSE IF s = <<"12.05.2024", " ", "14:30">>
        THEN [raised |-> FALSE, value |-> Some(DateTime(2024, 5, 12, 52200))]
    ELSE IF s = <<"3", " ", "nedeli", " ", "nazad">>
        THEN [raised |-> FALSE, value |-> Some(DateTime(now.year, now.month, 3, 0))]
    ELSE IF s = <<"317", " ", "dn">>
        THEN [raised |-> FALSE, value |-> Some(DateTime(317, now.month, now.day, 0))]
    ELSE [raised |-> TRUE, value |-> None]

Returns(v) == [raised |-> FALSE, value |-> v]
Raises == [raised |-> TRUE, value |-> None]

\* lines 401-409
DateFallbackMut(s, low, now) ==
    LET p == DateutilParse(s, now) IN
    IF p.raised THEN Returns(None) ELSE Returns(p.value)
DateFallback(s, low, now) ==
    LET p == DateutilParse(s, now) IN
    IF p.raised THEN Returns(None)
    ELSE IF Val(p.value).year < 1990
            /\ ~ContainsAny(low, HasSegodnya \cup HasVchera \cup HasDn \cup HasNed)
         THEN Returns(None)
    ELSE Returns(p.value)

\* lines 389-399, then the fallback
DateRelative(s, low, now) ==
    LET T == Tokens(low)
        i == DaysAgoMatch(T)
    IN IF ContainsAny(low, HasSegodnya)
       THEN Returns(Some(DateTime(now.year, now.month, now.day, 0)))
       ELSE IF ContainsAny(low, HasVchera) THEN MinusDays(now, 1)
       ELSE IF i # 0 THEN MinusDays(now, NumOf(T[i]).v)
       ELSE DateFallback(s, low, now)

\* _coerce_date(v) evaluated when datetime.now() is now: the value returned,
\* or raised = TRUE when an exception escapes
_coerce_date(v, now) ==
    IF v = None THEN Returns(None)
    ELSE LET s == PyStrip(Val(v))
             low == PyLower(s)
             T == Tokens(low)
             i == DayMonthMatch(T)
         IN IF s = <<>> THEN Returns(None)
            ELSE IF ContainsAny(low, HasOtzyv) \/ ContainsPoUmolchaniyu(low)
                 THEN Returns(None)
            ELSE IF i # 0
                    /\ T[i + 1][1] \in DOMAIN months
                    /\ 1 <= NumOf(T[i]).v /\ NumOf(T[i]).v <= 31
                 THEN LET day == NumOf(T[i]).v
                          mon == months[T[i + 1][1]]
                          year == IF HasYearGroup(T, i) THEN NumOf(T[i + 2]).v
                                  ELSE now.year
                      IN IF ValidDate(year, mon, day)
                         THEN Returns(Some(DateTime(year, mon, day, 0)))
                         ELSE Returns(None)
            ELSE DateRelative(s, low, now)

\* lines 332-336
_coerce_str(v) ==
    IF v = None THEN None
    ELSE LET s == PyStrip(Val(v)) IN IF s = <<>> THEN None ELSE Some(s)

\* lines 339-348
_coerce_ratingMut(v) ==
    IF v = None THEN None
    ELSE IF IsPyInt(Val(v)) THEN Some(Val(v).int)
    ELSE LET m == FirstIn(PyStrOf(Val(v)), DOMAIN RatingDigits)
         IN IF m = None THEN None ELSE Some(RatingDigits[Val(m)])
_coerce_rating(v) ==
    IF v = None THEN None
    ELSE IF IsPyInt(Val(v)) /\ 1 <= Val(v).int /\ Val(v).int <= 5 THEN Some(Val(v).int)
    ELSE LET m == FirstIn(PyStrOf(Val(v)), DOMAIN RatingDigits)
         IN IF m = None THEN None ELSE Some(RatingDigits[Val(m)])

\* lines 315-329: the Review built, or raised = TRUE when an exception escapes
_to_review(it, org_url, orgId, now) ==
    LET rating == _coerce_rating(it.rating)
        date == _coerce_date(it.date_text, now)
        author == _coerce_str(it.author)
        text == _coerce_str(it.text)
    IN IF date.raised THEN Raises
       ELSE Returns(Some([org_id |-> orgId, org_url |-> org_url, author |-> author,
                          rating |-> rating, date |-> date.value, text |-> text,
                          raw |-> it]))

----------------------------------------------------------------------------
(* utils.py: normalize_url and extract_org_id.  A url is a sequence of      *)
(* characters; "https" is a run of letters kept as one symbol.              *)

Digits == {"0", "1", "2", "3", "4", "5", "6", "7", "8", "9"}
Letters == {"a", "h", "p", "https"}
SchemeChars == Letters \cup Digits \cup {"+", "-", "."}

\* line 29
normalize_url(u) == PyStrip(u)

\* index of the first occurrence of c in u at or after position from; 0 if none
Find(u, c, from) ==
    LET hits == {i \in from..Len(u) : u[i] = c}
    IN IF hits = {} THEN 0 ELSE CHOOSE i \in hits : \A j \in hits : i <= j

\* index of the last occurrence of c in u; 0 if none
RFind(u, c) ==
    LET hits == {i \in 1..Len(u) : u[i] = c}
    IN IF hits = {} THEN 0 ELSE CHOOSE i \in hits : \A j \in hits : i >= j

RECURSIVE DigitRunEnd(_, _)
\* last index of the maximal run of digits of u that starts at i (i - 1: no digit)
DigitRunEnd(u, i) ==
    IF i <= Len(u) /\ u[i] \in Digits THEN DigitRunEnd(u, i + 1) ELSE i - 1

\* _ORG_ID_RE = /(\d{6,})/?(?:\?|$) matches at the "/" at position i
OrgIdMatchAt(u, i) ==
    /\ u[i] = "/"
    /\ LET e == DigitRunEnd(u, i + 1)
           k == IF e + 1 <= Len(u) /\ u[e + 1] = "/" THEN e + 1 ELSE e
       IN /\ e - i >= MinOrgIdDigits
          /\ \/ k = Len(u)
             \/ u[k + 1] = "?"
             \/ e = Len(u)
             \/ u[e + 1] = "?"

\* _ORG_ID_RE.search(url): the start of the leftmost match, 0 if none
OrgIdSearch(u) ==
    LET hits == {i \in 1..Len(u) : OrgIdMatchAt(u, i)}
    IN IF hits = {} THEN 0 ELSE CHOOSE i \in hits : \A j \in hits : i <= j

\* urllib.parse.urlsplit: the scheme and what follows it
SplitScheme(u) ==
    LET i == Find(u, ":", 1) IN
    IF i > 1 /\ u[1] \in Letters /\ \A j \in 1..(i - 1) : u[j] \in SchemeChars
    THEN [scheme |-> SubSeq(u, 1, i - 1), rest |-> SubSeq(u, i + 1, Len(u))]
    ELSE [scheme |-> <<>>, rest |-> u]

\* what follows the netloc
DropNetloc(u) ==
    IF Len(u) >= 2 /\ u[1] = "/" /\ u[2] = "/"
    THEN LET ends == {i \in 3..Len(u) : u[i] \in {"/", "?", "#"}}
         IN IF ends = {} THEN <<>>
            ELSE SubSeq(u, CHOOSE i \in ends : \A j \in ends : i <= j, Len(u))
    ELSE u

\* u up to the first occurrence of c
Before(u, c) == LET i == Find(u, c, 1) IN IF i = 0 THEN u ELSE SubSeq(u, 1, i - 1)

\* schemes of urllib.parse.uses_params that the model can form
UsesParams == {<<>>, <<"https">>}

\* urllib.parse._splitparams, the path part
SplitParams(u) ==
    LET i == IF Find(u, "/", 1) # 0 THEN Find(u, ";", RFind(u, "/")) ELSE Find(u, ";", 1)
    IN IF i = 0 THEN u ELSE SubSeq(u, 1, i - 1)

\* urlparse(url).path
UrlPath(u) ==
    LET sp == SplitScheme(u)
        p == Before(Before(DropNetloc(sp.rest), "#"), "?")
    IN IF sp.scheme \in UsesParams /\ Find(p, ";", 1) # 0 THEN SplitParams(p) ELSE p

RECURSIVE RStripSlash(_)
RStripSlash(u) ==
    IF u # <<>> /\ u[Len(u)] = "/" THEN RStripSlash(SubSeq(u, 1, Len(u) - 1)) ELSE u

\* path.split("/")[-1]
LastSegment(p) == SubSeq(p, RFind(p, "/") + 1, Len(p))

\* str.isdigit
IsDigitStr(t) == t # <<>> /\ \A i \in 1..Len(t) : t[i] \in Digits

\* lines 10-25
extract_org_id(u) ==
    LET i == OrgIdSearch(u) IN
    IF i # 0 THEN Some(SubSeq(u, i + 1, DigitRunEnd(u, i + 1)))
    ELSE LET last == LastSegment(RStripSlash(UrlPath(u)))
         IN IF IsDigitStr(last) THEN Some(last) ELSE None

\* the pieces urls are built from
UrlPieces ==
    {<<"https", ":", "/", "/", "h">>, <<"/", "a">>, <<"/">>, <<"?">>, <<"#">>,
     <<";", "p">>,
     <<"/", "1", "1", "1", "1", "1", "1">>,
     <<"/", "2", "2", "2", "2", "2", "2", "2">>,
     <<"/", "1", "1", "1", "1", "1">>}

RECURSIVE Flatten(_)
Flatten(ps) == IF ps = <<>> THEN <<>> ELSE Head(ps) \o Flatten(Tail(ps))

Urls == {Flatten(ps) : ps \in SeqsUpTo(UrlPieces, MaxUrlPieces)}

\* the url of the scraping runs
SampleUrl == Flatten(<<<<" ">>, <<"https", ":", "/", "/", "h">>, <<"/", "a">>,
                       <<"/", "1", "1", "1", "1", "1", "1">>, <<"/">>>>)

----------------------------------------------------------------------------
(* scrape_reviews: the final pass of lines 72-84                           *)

Pad(ds, n) == IF Len(ds) >= n THEN ds ELSE Repeat("0", n - Len(ds)) \o ds

\* str() of a datetime
PyStrDate(t) ==
    Pad(NatDigits(t.year), 4) \o <<"-">> \o Pad(NatDigits(t.month), 2) \o <<"-">>
        \o Pad(NatDigits(t.day), 2) \o <<" ">> \o Pad(NatDigits(t.tod \div 3600), 2)
        \o <<":">> \o Pad(NatDigits((t.tod \div 60) % 60), 2)
        \o <<":">> \o Pad(NatDigits(t.tod % 60), 2)

PyStrOptStr(o) == IF o = None THEN <<"None">> ELSE Val(o)
PyStrOptDate(o) == IF o = None THEN <<"None">> ELSE PyStrDate(Val(o))
PyStrOptNat(o) == IF o = None THEN <<"None">> ELSE NatDigits(Val(o))

\* line 76
ReviewKey(r) ==
    PyStrOptStr(r.author) \o <<"|">> \o PyStrOptDate(r.date) \o <<"|">>
        \o PyStrOptNat(r.rating) \o <<"|">> \o PyStrOptStr(r.text)

RECURSIVE FinalFromMut(_, _, _, _, _, _)
\* the loop without the test of line 77: every record is kept
FinalFromMut(items, lim, org_url, orgId, t, st) ==
    IF items = <<>> THEN st
    ELSE LET r == _to_review(Head(items), org_url, orgId, t) IN
         IF r.raised THEN [st EXCEPT !.raised = TRUE]
         ELSE LET review == Val(r.value)
                  st2 == [reviews |-> Append(st.reviews, review),
                          seen |-> st.seen \cup {ReviewKey(review)},
                          raised |-> FALSE]
              IN IF lim # None /\ Len(st2.reviews) >= Val(lim) THEN st2
                 ELSE FinalFromMut(Tail(items), lim, org_url, orgId, t, st2)

RECURSIVE FinalFrom(_, _, _, _, _, _)
\* the for loop of lines 74-82 over the remaining items; st: reviews, seen,
\* and raised = TRUE once _to_review has raised
FinalFrom(items, lim, org_url, orgId, t, st) ==
    IF items = <<>> THEN st
    ELSE LET r == _to_review(Head(items), org_url, orgId, t) IN
         IF r.raised THEN [st EXCEPT !.raised = TRUE]
         ELSE LET review == Val(r.value)
                  key == ReviewKey(review)
              IN IF key \in st.seen
                 THEN FinalFrom(Tail(items), lim, org_url, orgId, t, st)
                 ELSE LET st2 == [reviews |-> Append(st.reviews, review),
                                  seen |-> st.seen \cup {key}, raised |-> FALSE]
                      IN IF lim # None /\ Len(st2.reviews) >= Val(lim) THEN st2
                         ELSE FinalFrom(Tail(items), lim, org_url, orgId, t, st2)

FinalPass(items, lim, org_url, orgId, t) ==
    FinalFrom(items, lim, org_url, orgId, t,
              [reviews |-> <<>>, seen |-> {}, raised |-> FALSE])

----------------------------------------------------------------------------
(* The scraping run                                                        *)

Limits == {None} \cup {Some(n) : n \in 0..MaxLimit}
Profiles == {"mix", "feed", "stream", "clash"}
Today == DateTime(2026, 11, 1, 0)

\* a page operation as it went: env is what the page did (the outcome of each
\* candidate, selector or attempt; the items extracted), hit the index of the
\* candidate, selector or attempt that succeeded (0: none), misses the number
\* that failed
Op(name, env, hit, misses) ==
    [op |-> name, env |-> env, hit |-> hit, misses |-> misses]
NoOp == Op("none", <<>>, 0, 0)

\* number of candidates whose count() or click() raised before the loop ended
FailedBefore(outcomes, clickedIdx) ==
    Cardinality({i \in 1..Len(outcomes) :
                    /\ outcomes[i] \in {"count_error", "click_error"}
                    /\ (clickedIdx = 0 \/ i < clickedIdx)})

Idle ==
    /\ org_id = None
    /\ limit = None
    /\ shotPath = FALSE
    /\ profile = "mix"
    /\ loaded = 0
    /\ playwright = "none"
    /\ browser = "none"
    /\ context = "none"
    /\ round = 0
    /\ stable_rounds = 0
    /\ out = <<>>
    /\ seen = {}
    /\ exitBy = "none"
    /\ raw_items = None
    /\ reviews = None
    /\ result = "none"
    /\ lastOp = NoOp
    /\ hist = <<>>
    /\ lastNew = 0
    /\ ret = None

Init ==
    /\ pc = "start"
    /\ url = SampleUrl
    /\ org_id = None
    /\ limit \in Limits
    /\ shotPath \in BOOLEAN
    /\ profile \in Profiles
    /\ loaded = 0
    /\ playwright = "none"
    /\ browser = "none"
    /\ context = "none"
    /\ round = 0
    /\ stable_rounds = 0
    /\ out = <<>>
    /\ seen = {}
    /\ exitBy = "none"
    /\ raw_items = None
    /\ reviews = None
    /\ result = "none"
    /\ lastOp = NoOp
    /\ clock = Today
    /\ hist = <<>>
    /\ lastNew = 0
    /\ item = None
    /\ ret = None

config == <<limit, shotPath, profile, clock, item, ret>>
collector == <<round, stable_rounds, out, seen, exitBy, raw_items, hist, lastNew>>

\* an exception leaves the async with block of line 31: the context manager
\* stops the Playwright driver, and scrape_reviews raises
Propagate(op) ==
    /\ pc' = "raised"
    /\ result' = "raised"
    /\ playwright' = "stopped"
    /\ lastOp' = op

Failed(name) == Op(name, <<>>, 0, 1)

\* lines 28-31
Start ==
    /\ pc = "start"
    /\ url' = normalize_url(url)
    /\ org_id' = extract_org_id(url')
    /\ playwright' = "running"
    /\ pc' = "launch"
    /\ UNCHANGED <<config, collector, loaded, browser, context, reviews, result, lastOp>>

\* line 32
Launch ==
    /\ pc = "launch"
    /\ \/ /\ browser' = "open"
          /\ pc' = "new_context"
          /\ lastOp' = Op("launch", <<>>, 0, 0)
          /\ UNCHANGED <<playwright, result>>
       \/ Propagate(Failed("launch")) /\ UNCHANGED browser
    /\ UNCHANGED <<config, collector, url, org_id, loaded, context, reviews>>

\* lines 33-35
NewContext ==
    /\ pc = "new_context"
    /\ \/ /\ context' = "open"
          /\ pc' = "goto"
          /\ lastOp' = Op("new_context", <<>>, 0, 0)
          /\ UNCHANGED <<playwright, result>>
       \/ Propagate(Failed("new_context")) /\ UNCHANGED context
    /\ UNCHANGED <<config, collector, url, org_id, loaded, browser, reviews>>

\* line 38
Navigate ==
    /\ pc = "goto"
    /\ \/ /\ pc' = "cookies"
          /\ lastOp' = Op("goto", <<>>, 0, 0)
          /\ UNCHANGED <<playwright, result>>
       \/ Propagate(Failed("goto"))
    /\ UNCHANGED <<config, collector, url, org_id, loaded, browser, context, reviews>>

\* a best-effort candidate loop: at position here, then on to position next
BestEffort(here, next, name, r, env, outcomes) ==
    /\ pc = here
    /\ IF r.raised
       THEN Propagate(Failed(name))
       ELSE /\ pc' = next
            /\ lastOp' = Op(name, env, r.clicked, FailedBefore(outcomes, r.clicked))
            /\ UNCHANGED <<playwright, result>>

\* line 39
AcceptCookies ==
    /\ \E outcomes \in [1..CookieCandidates -> CandidateOutcomes] :
          BestEffort("cookies", "tab", "cookies", _try_accept_cookies(outcomes),
                     outcomes, outcomes)
    /\ UNCHANGED <<config, collector, url, org_id, loaded, browser, context, reviews>>

\* lines 104-116
ActivateTab ==
    /\ \E outcomes \in [1..TabLocators -> CandidateOutcomes] :
          BestEffort("tab", "wait", "tab", ActivateReviewsTab(outcomes),
                     outcomes, outcomes)
    /\ UNCHANGED <<config, collector, url, org_id, loaded, browser, context, reviews>>

\* lines 119-128
WaitForReviewsMut ==
    /\ pc = "wait"
    /\ \E found \in [1..ReviewSelectors -> BOOLEAN] :
          LET r == _wait_for_any_selector(found) IN
          /\ pc' = "show_more"
          /\ lastOp' = Op("wait", found, IF r.ok THEN r.tried ELSE 0,
                          IF r.ok THEN r.tried - 1 ELSE r.tried)
          /\ UNCHANGED <<playwright, result>>
    /\ UNCHANGED <<config, collector, url, org_id, loaded, browser, context, reviews>>
WaitForReviews ==
    /\ pc = "wait"
    /\ \E found \in [1..ReviewSelectors -> BOOLEAN] :
          LET r == _wait_for_any_selector(found) IN
          IF r.raised
          THEN Propagate(Op("wait", found, 0, r.tried))
          ELSE /\ pc' = "show_more"
               /\ lastOp' = Op("wait", found, IF r.ok THEN r.tried ELSE 0,
                               IF r.ok THEN r.tried - 1 ELSE r.tried)
               /\ UNCHANGED <<playwright, result>>
    /\ UNCHANGED <<config, collector, url, org_id, loaded, browser, context, reviews>>

\* line 142: the start of an iteration of the loop of line 140
ShowMore ==
    /\ round < MaxRounds
    /\ \E outcomes \in [1..ShowMoreLocators -> CandidateOutcomes] :
          BestEffort("show_more", "scroll", "show_more",
                     _click_show_more_if_present(outcomes), <<>>, <<>>)
    /\ round' = IF pc' = "scroll" THEN round + 1 ELSE round
    /\ UNCHANGED <<config, url, org_id, loaded, browser, context, reviews,
                   stable_rounds, out, seen, exitBy, raw_items, hist, lastNew>>

\* how _scroll_reviews_area ends: one of its methods scrolled, or the last
\* fallback of line 249 raised
ScrollOutcomes == {"container", "wheel", "page_down", "window", "error"}

\* line 146
Scroll ==
    /\ pc = "scroll"
    /\ \E how \in ScrollOutcomes :
          IF how = "error"
          THEN Propagate(Failed("scroll"))
          ELSE /\ pc' = "settle"
               /\ lastOp' = Op("scroll", <<>>, 0, 0)
               /\ UNCHANGED <<playwright, result>>
    /\ UNCHANGED <<config, collector, url, org_id, loaded, browser, context, reviews>>

\* line 149
Settle ==
    /\ pc = "settle"
    /\ \/ /\ pc' = "extract"
          /\ lastOp' = Op("settle", <<>>, 0, 0)
          /\ UNCHANGED <<playwright, result>>
       \/ Propagate(Failed("settle"))
    /\ UNCHANGED <<config, collector, url, org_id, loaded, browser, context, reviews>>

AfterCollector == IF shotPath THEN "screenshot" ELSE "close_context"

\* lines 151-177: Extract, Merge, the convergence check and the loop exit
ExtractMerge ==
    /\ pc = "extract"
    /\ \/ /\ Propagate(Failed("extract"))
          /\ UNCHANGED <<collector, loaded>>
       \/ \E doc \in Snapshots :
            LET items == _extract_reviews_dom(doc.nodes)
                m == MergeItems(items, limit,
                                [out |-> out, seen |-> seen, new |-> 0,
                                 returned |-> FALSE])
                stable == NextStable(m.new, stable_rounds)
            IN /\ loaded' = doc.loaded
               /\ out' = m.out
               /\ seen' = m.seen
               /\ hist' = NoteItems(hist, items)
               /\ lastNew' = IF m.new > 0 THEN round ELSE lastNew
               /\ lastOp' = Op("extract", items, 0, 0)
               /\ UNCHANGED <<playwright, result>>
               /\ IF m.returned
                  THEN /\ raw_items' = Some(Truncate(m.out, Val(limit)))
                       /\ exitBy' = "cap"
                       /\ pc' = AfterCollector
                       /\ UNCHANGED stable_rounds
                  ELSE /\ stable_rounds' = stable
                       /\ IF Converged(stable)
                          THEN /\ raw_items' = Some(m.out)
                               /\ exitBy' = "converged"
                               /\ pc' = AfterCollector
                          ELSE IF LoopExhausted(round)
                          THEN /\ raw_items' = Some(m.out)
                               /\ exitBy' = "ceiling"
                               /\ pc' = AfterCollector
                          ELSE /\ pc' = "show_more"
                               /\ UNCHANGED <<raw_items, exitBy>>
    /\ UNCHANGED <<config, url, org_id, browser, context, reviews, round>>

\* lines 50-67: both attempts are inside try blocks
ScreenshotMut ==
    /\ pc = "screenshot"
    /\ \E attempts \in [1..2 -> BOOLEAN] :
          IF attempts[1] \/ attempts[2]
          THEN /\ lastOp' = Op("screenshot", attempts, IF attempts[1] THEN 1 ELSE 2,
                               IF attempts[1] THEN 0 ELSE 1)
               /\ pc' = "close_context"
               /\ UNCHANGED <<playwright, result>>
          ELSE Propagate(Op("screenshot", attempts, 0, 2))
    /\ UNCHANGED <<config, collector, url, org_id, loaded, browser, context, reviews>>
Screenshot ==
    /\ pc = "screenshot"
    /\ \E attempts \in [1..2 -> BOOLEAN] :
          lastOp' = Op("screenshot", attempts,
                       IF attempts[1] THEN 1 ELSE IF attempts[2] THEN 2 ELSE 0,
                       IF attempts[1] THEN 0 ELSE IF attempts[2] THEN 1 ELSE 2)
    /\ pc' = "close_context"
    /\ UNCHANGED <<config, collector, url, org_id, loaded, playwright, browser,
                   context, reviews, result>>

\* line 69
CloseContext ==
    /\ pc = "close_context"
    /\ \/ /\ context' = "closed"
          /\ pc' = "close_browser"
          /\ lastOp' = Op("close_context", <<>>, 0, 0)
          /\ UNCHANGED <<playwright, result>>
       \/ Propagate(Failed("close_context")) /\ UNCHANGED context
    /\ UNCHANGED <<config, collector, url, org_id, loaded, browser, reviews>>

\* line 70, then the normal exit of the async with block
CloseBrowser ==
    /\ pc = "close_browser"
    /\ \/ /\ browser' = "closed"
          /\ playwright' = "stopped"
          /\ pc' = "final"
          /\ lastOp' = Op("close_browser", <<>>, 0, 0)
          /\ UNCHANGED result
       \/ Propagate(Failed("close_browser")) /\ UNCHANGED browser
    /\ UNCHANGED <<config, collector, url, org_id, loaded, context, reviews>>

\* lines 72-84
Finish ==
    /\ pc = "final"
    /\ LET f == FinalPass(Val(raw_items), limit, url, org_id, clock) IN
       IF f.raised
       THEN /\ pc' = "raised"
            /\ result' = "raised"
            /\ lastOp' = Failed("final")
            /\ UNCHANGED reviews
       ELSE /\ pc' = "done"
            /\ result' = "returned"
            /\ reviews' = Some(f.reviews)
            /\ lastOp' = Op("final", <<>>, 0, 0)
    /\ UNCHANGED <<config, collector, url, org_id, loaded, playwright, browser, context>>

Next ==
    \/ Start
    \/ Launch
    \/ NewContext
    \/ Navigate
    \/ AcceptCookies
    \/ ActivateTab
    \/ WaitForReviews
    \/ ShowMore
    \/ Scroll
    \/ Settle
    \/ ExtractMerge
    \/ Screenshot
    \/ CloseContext
    \/ CloseBrowser
    \/ Finish

Spec == Init /\ [][Next]_vars

----------------------------------------------------------------------------
(* extract_org_id applied to the urls of the model                         *)

InitUrl ==
    /\ pc = "extract_org_id"
    /\ url \in Urls
    /\ clock = Today
    /\ item = None
    /\ Idle

ExtractOrgIdCall ==
    /\ pc = "extract_org_id"
    /\ org_id' = extract_org_id(url)
    /\ pc' = "returned"
    /\ UNCHANGED <<config, collector, url, loaded, playwright, browser, context,
                   reviews, result, lastOp>>

NextUrl == ExtractOrgIdCall

SpecUrl == InitUrl /\ [][NextUrl]_vars

----------------------------------------------------------------------------
(* _to_review applied to the raw items of the model                        *)

AuthorTexts == {None, Some(<<>>), Some(<<"a">>), Some(<<" ", "<US>">>)}

RatingValues ==
    {None, Some(PyInt(0)), Some(PyInt(3)), Some(PyInt(6)), Some(PyInt(15)),
     Some(PyStr(<<"rating", " ", "4", " ", "of", " ", "5">>)),
     Some(PyStr(<<"6">>)), Some(PyStr(<<"0">>))}

BodyTexts == {None, Some(<<>>), Some(<<"x">>), Some(<<"<US>">>)}

DateTexts ==
    {None, Some(<<>>), Some(<<" ">>),
     Some(<<"4", " ", "sentyabrya", " ", "2025">>),
     Some(<<"4", " ", "Sentyabrya", " ", "2025">>),
     Some(<<"29", " ", "iyulya">>),
     Some(<<"29", " ", "fevralya", " ", "2024">>),
     Some(<<"29", " ", "fevralya", " ", "2023">>),
     Some(<<"29", " ", "fevralya">>),
     Some(<<"31", " ", "iyunya">>),
     Some(<<"4", " ", "sentyabrya", " ", "0000">>),
     Some(<<"0", " ", "sentyabrya">>),
     Some(<<"30", " ", "fevralya", " ", "vchera">>),
     Some(<<"segodnya">>), Some(<<"vchera">>), Some(<<"Vchera">>),
     Some(<<"pozavchera">>),
     Some(<<"3", " ", "dnya", " ", "nazad">>),
     Some(<<"0", " ", "dney", " ", "nazad">>),
     Some(<<"800000", " ", "dney", " ", "nazad">>),
     Some(<<"1000000000", " ", "dney", " ", "nazad">>),
     Some(<<"3", " ", "nedeli", " ", "nazad">>),
     Some(<<"317", " ", "otzyvov">>),
     Some(<<"po", " ", "umolchaniyu">>),
     Some(<<"4", " ", "sentyabrya", " ", "po", " ", "umolchaniyu">>),
     Some(<<"vchera", " ", "317", " ", "otzyvov">>),
     Some(<<"317">>), Some(<<"317", " ", "dn">>),
     Some(<<"12.05.2024", " ", "14:30">>),
     Some(<<"slovo">>)}

RawItems ==
    [author : AuthorTexts, rating : RatingValues, date_text : DateTexts,
     text : BodyTexts]

Clocks == {Today, DateTime(2024, 3, 1, 0), DateTime(2025, 1, 1, 0)}

InitToReview ==
    /\ pc = "to_review"
    /\ url = SampleUrl
    /\ item \in {Some(it) : it \in RawItems}
    /\ clock \in Clocks
    /\ Idle

ToReviewCall ==
    /\ pc = "to_review"
    /\ LET r == _to_review(Val(item), url, org_id, clock) IN
       /\ ret' = r.value
       /\ pc' = IF r.raised THEN "raised" ELSE "returned"
    /\ UNCHANGED <<limit, shotPath, profile, clock, item, collector, url, org_id,
                   loaded, playwright, browser, context, reviews, result, lastOp>>

NextToReview == ToReviewCall

SpecToReview == InitToReview /\ [][NextToReview]_vars

----------------------------------------------------------------------------
(* _scroll_reviews_area applied to the documents of the model              *)
(*                                                                         *)
(* The document as the scroll step sees it: whether a .business-review-view *)
(* node exists, the ancestors of the first one from its parent upwards      *)
(* (overflowY, and range = scrollHeight - clientHeight), and how each page   *)
(* operation of the step ends.                                              *)

ScrollSlack == 5

\* lines 219-221
Scrollable(el) ==
    el.overflowY \in {"auto", "scroll", "overlay"} /\ el.range > ScrollSlack

\* the while loop of lines 216-227: the index of the ancestor whose scrollTop
\* is changed, 0 when the loop ends without one
ScrollTarget(ancestors) ==
    LET hits == {i \in 1..Len(ancestors) : Scrollable(ancestors[i])}
    IN IF hits = {} THEN 0 ELSE CHOOSE i \in hits : \A j \in hits : i <= j

\* lines 200-249: how the step ends and the ancestor it scrolled
_scroll_reviews_area(e) ==
    LET t == ScrollTarget(e.ancestors)
        did == e.evaluate = "ok" /\ e.review /\ t # 0
        end(how, i) == [how |-> how, target |-> i]
    IN IF did THEN end("container", t)
       ELSE IF e.hover = "ok" /\ e.wheel = "ok" THEN end("wheel", 0)
       ELSE IF e.page_down = "ok" THEN end("page_down", 0)
       ELSE IF e.window = "ok" THEN end("window", 0)
       ELSE end("error", 0)

Ancestors == [overflowY : {"auto", "overlay", "visible"}, range : {0, 5, 6, 100}]

ScrollEnvs ==
    [review : BOOLEAN, ancestors : SeqsUpTo(Ancestors, MaxAncestors),
     into_view : {"ok", "error"}, evaluate : {"ok", "error"}, hover : {"ok", "error"},
     wheel : {"ok", "error"}, page_down : {"ok", "error"}, window : {"ok", "error"}]

InitScroll ==
    /\ pc = "scroll_reviews_area"
    /\ url = SampleUrl
    /\ item \in {Some(e) : e \in ScrollEnvs}
    /\ clock = Today
    /\ Idle

ScrollCall ==
    /\ pc = "scroll_reviews_area"
    /\ LET r == _scroll_reviews_area(Val(item)) IN
       /\ ret' = Some(r)
       /\ pc' = IF r.how = "error" THEN "raised" ELSE "returned"
    /\ UNCHANGED <<limit, shotPath, profile, clock, item, collector, url, org_id,
                   loaded, playwright, browser, context, reviews, result, lastOp>>

SpecScroll == InitScroll /\ [][ScrollCall]_vars

----------------------------------------------------------------------------
(* Properties                                                              *)

Returned == raw_items # None
Exited == pc \in {"final", "done", "raised"}
Raws(rs) == [i \in 1..Len(rs) |-> rs[i].raw]
NoRepeats(s) == \A i, j \in 1..Len(s) : i # j => s[i] # s[j]

\* C1: with a cap N configured, the list returned by
\* _collect_reviews_while_scrolling and the list returned by scrape_reviews
\* have at most N elements.
C1_CapEnforced ==
    limit # None =>
        /\ Returned => Len(Val(raw_items)) <= Val(limit)
        /\ reviews # None => Len(Val(reviews)) <= Val(limit)

\* the cap cut the collection short: more distinct items had been extracted
C1_Witness ==
    /\ pc = "done"
    /\ exitBy = "cap"
    /\ Val(limit) > 0
    /\ Len(Val(reviews)) = Val(limit)
    /\ Len(hist) > Val(limit)

\* C2: raw items with identical (author, date text, rating, text) tuples,
\* extracted in the same round or in different rounds, occur at most once in
\* the accumulator and give at most one record of the final output.
C2_IdenticalItemsCollapse ==
    /\ NoRepeats(out)
    /\ reviews # None => NoRepeats(Raws(Val(reviews)))

\* one snapshot held the same item twice and the accumulator holds it once
C2_Witness ==
    /\ lastOp.op = "extract"
    /\ \E i, j \in 1..Len(lastOp.env) : i # j /\ lastOp.env[i] = lastOp.env[j]
    /\ Len(out) = 1
    /\ round >= 2

\* C3 as stated: when the last round that adds a new unique item is round K,
\* the collector returns after at most K + 20 rounds and never by exhausting
\* the 260 iterations of the loop.
C3_ConvergesBeforeCeiling ==
    Returned => round <= lastNew + StableThreshold /\ exitBy # "ceiling"

\* C3 amended: the collector returns after at most min(K + 20, 260) rounds,
\* and for K <= 240 it returns by the convergence check or the cap, not by
\* exhausting the 260 iterations.
C3_ConvergesWithinThreshold ==
    Returned =>
        /\ round <= lastNew + StableThreshold
        /\ round <= MaxRounds
        /\ lastNew <= MaxRounds - StableThreshold => exitBy # "ceiling"

\* the collector converged exactly 20 rounds after its last new item
C3_Witness ==
    /\ exitBy = "converged"
    /\ lastNew > 0
    /\ round = lastNew + StableThreshold
    /\ round < MaxRounds

\* C4: once the browser was launched, the browsing context and the browser
\* are closed on every exit path of scrape_reviews, normal or exceptional.
C4_TeardownOnEveryExit ==
    Exited /\ browser # "none" => browser = "closed" /\ context # "open"

\* C5: the mandatory reviews wait succeeds at the first selector found, trying
\* none after it, and fails exactly when every selector fails; the failure
\* makes scrape_reviews raise and no record list is returned.
C5_MandatoryWait ==
    lastOp.op = "wait" =>
        LET found == {i \in 1..ReviewSelectors : lastOp.env[i]} IN
        /\ found # {} =>
              /\ pc = "show_more"
              /\ lastOp.hit \in found
              /\ \A i \in found : lastOp.hit <= i
              /\ lastOp.misses = lastOp.hit - 1
        /\ found = {} =>
              /\ pc = "raised"
              /\ result = "raised"
              /\ lastOp.misses = ReviewSelectors
              /\ reviews = None

\* every selector timed out and the run failed
C5_Witness ==
    /\ lastOp.op = "wait"
    /\ \A i \in 1..ReviewSelectors : ~lastOp.env[i]
    /\ pc = "raised"
    /\ reviews = None

\* C6: whatever the candidates of the consent step, the reviews-tab step and
\* the show-more step do (absent, count error, click error or timeout), the
\* step ends without error and the run is at the next step.
C6_BestEffortNeverRaises ==
    /\ lastOp.op = "cookies" => pc = "tab" /\ result = "none"
    /\ lastOp.op = "tab" => pc = "wait" /\ result = "none"
    /\ lastOp.op = "show_more" => pc = "scroll" /\ result = "none"

\* every reviews-tab locator raised, and the run went on to the mandatory wait
C6_Witness ==
    /\ lastOp.op = "tab"
    /\ \A i \in 1..TabLocators : lastOp.env[i] \in {"count_error", "click_error"}
    /\ lastOp.misses = TabLocators
    /\ pc = "wait"

\* C7: _to_review returns a Review for every raw item and never raises, also
\* for a date text 'N days ago' with N however large.
C7_ToReviewTotal ==
    /\ pc # "raised"
    /\ pc = "returned" => ret # None

\* C8: every item of the accumulator has a rating or a non-empty body text,
\* and every record of the final output has rating or text non-null.
C8_RatingOrText ==
    /\ \A i \in 1..Len(out) : out[i].rating # None \/ TruthyText(out[i].text)
    /\ reviews # None =>
          \A i \in 1..Len(Val(reviews)) :
              Val(reviews)[i].rating # None \/ Val(reviews)[i].text # None

\* C9: the accumulator lists items in the order in which they were first
\* extracted, it only ever grows at its end, and the final record list keeps
\* the accumulator's relative order.
C9_FirstSeenOrder ==
    /\ [](IsSubsequence(out, hist))
    /\ [][IsPrefix(out, out')]_vars
    /\ [](reviews # None => IsSubsequence(Raws(Val(reviews)), out))

\* three items first seen in at least two rounds reached the final output
C9_Witness ==
    /\ pc = "done"
    /\ Len(Val(reviews)) = 3
    /\ Raws(Val(reviews)) = out
    /\ lastNew >= 2

\* the digit segment that ends the path of u, when it has 6 or more digits
PathDigitSegment(u) ==
    LET p == UrlPath(u)
        q == IF p # <<>> /\ p[Len(p)] = "/" THEN SubSeq(p, 1, Len(p) - 1) ELSE p
        last == LastSegment(q)
    IN IF IsDigitStr(last) /\ Len(last) >= MinOrgIdDigits THEN Some(last) ELSE None

\* C10: for a url whose path ends with a segment of 6 or more digits, with or
\* without a trailing slash, extract_org_id returns that digit string.
C10_OrgIdOfDigitPath ==
    pc = "returned" /\ PathDigitSegment(url) # None => org_id = PathDigitSegment(url)

\* the segments of the path of u that consist of 6 or more digits
DigitSegments(u) ==
    LET p == UrlPath(u) IN
    {SubSeq(p, i, j) : <<i, j>> \in
        {ij \in (1..Len(p)) \X (1..Len(p)) :
            /\ ij[2] - ij[1] + 1 >= MinOrgIdDigits
            /\ \A k \in ij[1]..ij[2] : p[k] \in Digits
            /\ (ij[1] = 1 \/ p[ij[1] - 1] = "/")
            /\ (ij[2] = Len(p) \/ p[ij[2] + 1] = "/")}}

\* C11: for a url whose path has a segment of 6 or more digits followed by a
\* slash or by the end of the string, also when further path segments follow,
\* extract_org_id returns that digit segment.
C11_OrgIdOfAnyDigitSegment ==
    pc = "returned" /\ DigitSegments(url) # {} =>
        org_id # None /\ Val(org_id) \in DigitSegments(url)

\* the rating of the raw item given to _to_review and the rating of the Review
RatingIn == Val(item).rating
RatingOut == Val(ret).rating

\* C12: _coerce_rating returns an integer input in [1,5] itself; otherwise
\* the first character in '1'..'5' of the input's string form, and absent when
\* there is none; the result is always absent or an integer in [1,5], and the
\* inputs "6" and "0" give absent.
C12_CoerceRating ==
    pc = "returned" =>
        /\ RatingOut = None \/ Val(RatingOut) \in 1..5
        /\ RatingIn \in {Some(PyStr(<<"6">>)), Some(PyStr(<<"0">>))} => RatingOut = None
        /\ IF RatingIn # None /\ IsPyInt(Val(RatingIn)) /\ Val(RatingIn).int \in 1..5
           THEN RatingOut = Some(Val(RatingIn).int)
           ELSE LET s == PyStrOpt(RatingIn)
                    hits == {i \in 1..Len(s) : s[i] \in DOMAIN RatingDigits}
                IN IF hits = {} THEN RatingOut = None
                   ELSE \E i \in hits :
                          /\ \A j \in hits : i <= j
                          /\ RatingOut = Some(RatingDigits[s[i]])

\* an integer outside [1,5] whose string form holds a digit in '1'..'5'
C12_Witness ==
    /\ pc = "returned"
    /\ RatingIn = Some(PyInt(15))
    /\ RatingOut = Some(1)

\* the date text of the raw item given to _to_review, and the outcome
DateIn == Val(item).date_text
DateOut == Val(ret).date
Called == pc \in {"returned", "raised"}

\* the date text is 'day month-name' or 'day month-name year': its day, month
\* and year numbers (year 0 - 1 when it is neither)
DayMonthYear(t, now) ==
    IF /\ Len(t) \in {3, 5}
       /\ t[1] \in DOMAIN NumTok /\ NumTok[t[1]].d <= 2
       /\ t[2] = " "
       /\ LowerSym(t[3]) \in DOMAIN months
       /\ Len(t) = 5 => t[4] = " " /\ t[5] \in DOMAIN NumTok /\ NumTok[t[5]].d = 4
    THEN [day |-> NumTok[t[1]].v, month |-> months[LowerSym(t[3])],
          year |-> IF Len(t) = 5 THEN NumTok[t[5]].v ELSE now.year]
    ELSE [day |-> 0, month |-> 0, year |-> 0 - 1]

\* C13: for a date text 'day month-name year' or 'day month-name' with a month
\* name of the table and a day valid for that month, _coerce_date returns the
\* date (year, month of the table, day) at midnight, with the current year
\* when the year is omitted.
C13_DayMonthDate ==
    Called /\ DateIn # None =>
        LET d == DayMonthYear(Val(DateIn), clock) IN
        ValidDate(d.year, d.month, d.day) =>
            /\ pc = "returned"
            /\ DateOut = Some(DateTime(d.year, d.month, d.day, 0))

\* a leap day without a year, read in a leap year
C13_Witness ==
    /\ pc = "returned"
    /\ DateIn = Some(<<"29", " ", "fevralya">>)
    /\ clock.year = 2024
    /\ DateOut = Some(DateTime(2024, 2, 29, 0))

\* the date text is 'N days ago': the number N (0 - 1 when it is not)
DaysAgoText(t) ==
    IF /\ Len(t) = 5
       /\ t[1] \in DOMAIN NumTok
       /\ t[2] = " " /\ t[3] \in {"dn", "dnya", "dney"}
       /\ t[4] = " " /\ t[5] = "nazad"
    THEN NumTok[t[1]].v
    ELSE 0 - 1

\* the number of days that a relative date text names (0 - 1: none)
RelativeDays(t) ==
    IF t = <<"segodnya">> THEN 0
    ELSE IF t = <<"vchera">> THEN 1
    ELSE DaysAgoText(t)

\* C14: for the date texts 'today', 'yesterday' and 'N days ago', with N any
\* non-negative integer, _coerce_date returns the current date minus 0, 1 and
\* N days, at midnight.
C14_RelativeDates ==
    Called /\ DateIn # None /\ RelativeDays(Val(DateIn)) >= 0 =>
        /\ pc = "returned"
        /\ DateOut # None
        /\ Val(DateOut).tod = 0
        /\ ToOrdinal(Val(DateOut).year, Val(DateOut).month, Val(DateOut).day)
              = ToOrdinal(clock.year, clock.month, clock.day) - RelativeDays(Val(DateIn))

\* the date text lowercased and cut into words, as _coerce_date reads it
LowIn == PyLower(PyStrip(Val(DateIn)))
WordsIn == Tokens(LowIn)

\* the date text holds a review-count token or the default-placeholder phrase
Contaminated ==
    \/ \E i \in 1..Len(LowIn) : LowIn[i] = "otzyvov"
    \/ \E i \in 1..(Len(LowIn) - 2) :
          <<LowIn[i], LowIn[i + 1], LowIn[i + 2]>> = <<"po", " ", "umolchaniyu">>

\* the day+month-name stage matches a month of the table with a day in 1..31
\* that the month does not have
DayOutOfRange ==
    LET i == DayMonthMatch(WordsIn) IN
    /\ i # 0
    /\ WordsIn[i + 1][1] \in DOMAIN months
    /\ NumOf(WordsIn[i]).v \in 1..31
    /\ ~ValidDate(IF HasYearGroup(WordsIn, i) THEN NumOf(WordsIn[i + 2]).v ELSE clock.year,
                  months[WordsIn[i + 1][1]], NumOf(WordsIn[i]).v)

\* C15: when the day+month-name stage matches a month of the table but the
\* day is out of range for it, the stage counts as no match: the result is
\* that of the relative-date stage and the fallback parser on the same
\* string, and nothing is raised.
C15_BadDayFallsThrough ==
    Called /\ DateIn # None /\ ~Contaminated /\ DayOutOfRange =>
        /\ pc = "returned"
        /\ DateOut = DateRelative(PyStrip(Val(DateIn)), LowIn, clock).value

\* C16: for a date text that contains a review-count token or the
\* default-placeholder phrase, _coerce_date returns absent, also when the
\* text holds a valid day+month-name date or a relative-date token.
C16_ContaminatedIsAbsent ==
    Called /\ DateIn # None /\ Contaminated => pc = "returned" /\ DateOut = None

\* a valid day and month followed by the placeholder phrase gave no date
C16_Witness ==
    /\ pc = "returned"
    /\ DateIn = Some(<<"4", " ", "sentyabrya", " ", "po", " ", "umolchaniyu">>)
    /\ DateOut = None

\* the date text holds one of the substrings "сегодня", "вчера", "дн", "нед"
RelativeToken ==
    \E i \in 1..Len(LowIn) :
        LowIn[i] \in {"segodnya", "vchera", "pozavchera", "dn", "dnya", "dney", "nedeli"}

\* no earlier stage returns for the date text: the fallback parser runs
FallbackRuns ==
    LET i == DayMonthMatch(WordsIn) IN
    /\ LowIn # <<>>
    /\ ~Contaminated
    /\ ~(i # 0 /\ WordsIn[i + 1][1] \in DOMAIN months /\ NumOf(WordsIn[i]).v \in 1..31)
    /\ \A k \in 1..Len(LowIn) : LowIn[k] \notin {"segodnya", "vchera", "pozavchera"}
    /\ DaysAgoMatch(WordsIn) = 0

\* C17: when the fallback parser yields a date with a year before 1990 and
\* the string holds no relative-date token, _coerce_date returns absent; a
\* date before 1990 comes out of the fallback stage only for a string with a
\* relative-date token.
C17_ImplausibleYearRejected ==
    pc = "returned" /\ DateIn # None /\ FallbackRuns =>
        LET p == DateutilParse(PyStrip(Val(DateIn)), clock) IN
        /\ ~p.raised /\ Val(p.value).year < 1990 /\ ~RelativeToken => DateOut = None
        /\ DateOut # None /\ Val(DateOut).year < 1990 => RelativeToken

\* the fallback parser read a bare number as the year 317, and no date came out
C17_Witness ==
    /\ pc = "returned"
    /\ DateIn = Some(<<"317">>)
    /\ FallbackRuns
    /\ Val(DateutilParse(<<"317">>, clock).value).year = 317
    /\ DateOut = None

\* C18: every non-null date of a record returned by scrape_reviews has no
\* time of day (hour, minute and second are zero), whichever stage of
\* _coerce_date produced it.
C18_DatesAtMidnight ==
    reviews # None =>
        \A i \in 1..Len(Val(reviews)) :
            Val(reviews)[i].date # None => Val(Val(reviews)[i].date).tod = 0

\* the run is inside _collect_reviews_while_scrolling
InCollector == pc \in {"show_more", "scroll", "settle", "extract"}

\* the steps of the collector taken so far: four to a round (expand, scroll,
\* settle, extract and merge)
Progress ==
    4 * round + (CASE pc = "scroll" -> 0 [] pc = "settle" -> 1 [] pc = "extract" -> 2
                   [] OTHER -> 3)

\* C19: _collect_reviews_while_scrolling terminates for every page: every
\* step of it leaves the collector or advances it within a round or to the
\* next round, it never starts a round after the 260th, also when every
\* round yields a new unique item, and when the loop is used up it returns
\* the accumulator.
C19_CollectorTerminates ==
    /\ [](round <= MaxRounds)
    /\ [](pc = "show_more" => round < MaxRounds)
    /\ [](exitBy = "ceiling" => round = MaxRounds /\ raw_items = Some(out))
    /\ [][InCollector => ~InCollector' \/ Progress' = Progress + 1]_vars

\* every one of the 260 rounds added a new item, and the collector returned
C19_Witness ==
    /\ exitBy = "ceiling"
    /\ round = MaxRounds
    /\ lastNew = MaxRounds
    /\ Len(out) = MaxRounds
    /\ raw_items = Some(out)

\* C20: the convergence counter counts the empty rounds since the last round
\* that added a new item; when the collector returns before round 260
\* without reaching the cap, it returns through the convergence check and
\* none of the 20 rounds before the return added a new item.
C20_ConsecutiveEmptyRounds ==
    /\ pc = "show_more" => stable_rounds = round - lastNew
    /\ exitBy = "converged" => round - lastNew >= StableThreshold
    /\ Returned /\ exitBy # "cap" /\ round < MaxRounds =>
          exitBy = "converged" /\ lastNew <= round - StableThreshold

\* more than 20 empty rounds in all, with a new item in between, before the
\* collector converged on 20 empty rounds in a row
C20_Witness ==
    /\ profile = "feed"
    /\ exitBy = "converged"
    /\ lastNew > 0
    /\ round = lastNew + StableThreshold
    /\ round - Len(out) > StableThreshold

\* C21: when a cap is set and the accumulator reaches it during the Merge
\* step, the collector returns at once: the remaining items of the snapshot
\* are not merged, and no expand, scroll, settle or extract step follows.
C21_ReturnsAtCap ==
    /\ [](InCollector /\ limit # None => out = <<>> \/ Len(out) < Val(limit))
    /\ [](exitBy = "cap" => ~InCollector /\ Len(out) = Max(Val(limit), 1)
                             /\ raw_items = Some(Truncate(out, Val(limit))))
    /\ [][exitBy = "cap" => ~InCollector' /\ round' = round /\ out' = out]_vars

\* the cap was reached in the middle of a snapshot: an extracted item that was
\* new stayed out of the accumulator
C21_Witness ==
    /\ lastOp.op = "extract"
    /\ exitBy = "cap"
    /\ Val(limit) >= 1
    /\ Len(out) = Val(limit)
    /\ \E i \in 1..Len(lastOp.env) : CollectorKey(lastOp.env[i]) \notin seen

\* the place of a page operation in the order of scrape_reviews
OpStage(name) ==
    CASE name = "none" -> 0
      [] name = "launch" -> 1
      [] name = "new_context" -> 2
      [] name = "goto" -> 3
      [] name = "cookies" -> 4
      [] name = "tab" -> 5
      [] name = "wait" -> 6
      [] name \in {"show_more", "scroll", "settle", "extract"} -> 7
      [] name = "screenshot" -> 8
      [] name = "close_context" -> 9
      [] name = "close_browser" -> 10
      [] name = "final" -> 11

\* C22: the page operations of a run happen in the order launch, navigate,
\* consent dismissal, reviews-section activation, mandatory wait, collection
\* loop, optional screenshot, teardown; the collection loop and its Extract
\* steps begin only after the mandatory wait has succeeded, which follows a
\* completed navigation.
C22_OperationsInOrder ==
    /\ [][\/ OpStage(lastOp'.op) = OpStage(lastOp.op)
          \/ OpStage(lastOp'.op) = OpStage(lastOp.op) + 1
          \/ OpStage(lastOp.op) = 7 /\ OpStage(lastOp'.op) = 9 /\ ~shotPath]_vars
    /\ [][OpStage(lastOp'.op) > OpStage(lastOp.op) => pc \notin {"raised", "start"}]_vars
    /\ [][OpStage(lastOp.op) < 7 /\ OpStage(lastOp'.op) = 7
             => lastOp.op = "wait" /\ lastOp.hit \in 1..ReviewSelectors]_vars
    /\ [][lastOp'.op = "wait" => lastOp.op = "tab"]_vars
    /\ [][lastOp'.op = "tab" => lastOp.op = "cookies"]_vars
    /\ [][lastOp'.op = "cookies" => lastOp = Op("goto", <<>>, 0, 0)]_vars
    /\ [](lastOp.op = "extract" => round >= 1 /\ browser = "open" /\ context = "open")

\* a run with a screenshot went through every operation and returned
C22_Witness ==
    /\ pc = "done"
    /\ shotPath
    /\ lastOp.op = "final"
    /\ round >= 2
    /\ browser = "closed"

\* the document given to _scroll_reviews_area and how the step ended
ScrollIn == Val(item)
ScrollOut == Val(ret)

\* the ancestors with a scrollable overflow and more than 5 pixels of range
ScrollableAncestors ==
    {i \in 1..Len(ScrollIn.ancestors) :
        /\ ScrollIn.ancestors[i].overflowY \in {"auto", "scroll", "overlay"}
        /\ ScrollIn.ancestors[i].range > 5}

\* C23: the Scroll step scrolls, among the scrollable ancestors of a review
\* node, the one with the largest scroll range; it uses the other scroll
\* methods only when there is no review node or no scrollable ancestor, or
\* the direct manipulation fails.
C23_LargestRangeAncestor ==
    pc \in {"returned", "raised"} =>
        /\ ScrollOut.how = "container" =>
              /\ ScrollIn.review
              /\ ScrollOut.target \in ScrollableAncestors
              /\ \A j \in ScrollableAncestors :
                    ScrollIn.ancestors[j].range <= ScrollIn.ancestors[ScrollOut.target].range
        /\ ScrollOut.how # "container" =>
              \/ ~ScrollIn.review
              \/ ScrollableAncestors = {}
              \/ ScrollIn.evaluate = "error"

\* C24: a screenshot is attempted only when a path is configured and only
\* after the collector has returned; the reduced-scope attempt is made once
\* and only after the full-page attempt failed; whatever the attempts do,
\* the run goes on to the teardown and returns the records of the
\* collector's items.
C24_ScreenshotBestEffort ==
    /\ [](pc = "screenshot" => shotPath /\ Returned)
    /\ [](lastOp.op = "screenshot" =>
            /\ shotPath /\ Returned
            /\ pc = "close_context" /\ result = "none"
            /\ lastOp.hit = 1 <=> lastOp.env[1]
            /\ lastOp.hit = 2 <=> ~lastOp.env[1] /\ lastOp.env[2]
            /\ lastOp.misses = (IF lastOp.env[1] THEN 0 ELSE IF lastOp.env[2] THEN 1 ELSE 2))
    /\ [][lastOp'.op = "screenshot" => lastOp.op = "extract" /\ raw_items' = raw_items]_vars
    /\ [][lastOp.op = "screenshot" => lastOp'.op = "close_context"]_vars
    /\ [](pc = "done" =>
            reviews = Some(FinalPass(Val(raw_items), limit, url, org_id, clock).reviews))

\* both attempts failed and the run went on to close the context
C24_Witness ==
    /\ lastOp.op = "screenshot"
    /\ ~lastOp.env[1] /\ ~lastOp.env[2]
    /\ lastOp.misses = 2
    /\ pc = "close_context"
    /\ Len(Val(raw_items)) >= 1

\* the fields of a raw item that the collector's key is made of
CollectorTuple(it) ==
    <<PyStrip(OrEmpty(it.author)), PyStrip(OrEmpty(it.date_text)), it.rating,
      PyStrip(OrEmpty(it.text))>>

\* the fields of a record that the key of the final pass is made of
FinalTuple(r) == <<r.author, r.date, r.rating, r.text>>

\* the record that the final pass makes of a raw item
RecordOf(it) == Val(_to_review(it, url, org_id, clock).value)

\* C25: an item is dropped as a duplicate, in the collector or in the final
\* pass, only if an earlier kept item has the same field tuple for that
\* stage's key, also for fields that hold the '|' separator or the text 'None'.
C25_OnlyEqualTuplesMerged ==
    /\ exitBy # "cap" =>
          \A i \in 1..Len(hist) : \E j \in 1..Len(out) :
              CollectorTuple(out[j]) = CollectorTuple(hist[i])
    /\ pc = "done" /\ limit = None =>
          \A i \in 1..Len(Val(raw_items)) : \E j \in 1..Len(Val(reviews)) :
              FinalTuple(Val(reviews)[j]) = FinalTuple(RecordOf(Val(raw_items)[i]))

\* the dedup keys of a list of raw items
KeysOf(items) == {CollectorKey(items[i]) : i \in 1..Len(items)}

\* C26: as long as the cap is not reached, at the end of every round the
\* dedup keys of the accumulator are the keys of all items extracted in this
\* and the earlier rounds, and the collector returns the whole accumulator:
\* an item no longer rendered stays in the output.
C26_NothingExtractedIsLost ==
    exitBy # "cap" =>
        /\ KeysOf(out) = KeysOf(hist)
        /\ seen = KeysOf(hist)
        /\ Returned => raw_items = Some(out)

\* the feed had dropped the first review from the document when the collector
\* returned, and the review is in the output
C26_Witness ==
    /\ profile = "feed"
    /\ lastOp.op = "extract"
    /\ exitBy = "converged"
    /\ Len(Val(raw_items)) > FeedWindow
    /\ Val(raw_items)[1] \notin Range(lastOp.env)

\* the records that the final pass makes of the collector's items, in order
RecordsOf(items) == [i \in 1..Len(items) |-> RecordOf(items[i])]

\* the index of the first record of recs that has the key of recs[i]
FirstWithKey(recs, i) ==
    CHOOSE j \in 1..i :
        /\ ReviewKey(recs[j]) = ReviewKey(recs[i])
        /\ \A k \in 1..(j - 1) : ReviewKey(recs[k]) # ReviewKey(recs[i])

\* C27, as stated: with no cap set, scrape_reviews returns exactly one record
\* per raw item accumulated by the collector, in the same order.
C27_FinalPassIsNoOp ==
    pc = "done" /\ limit = None =>
        Val(reviews) = RecordsOf(Val(raw_items))

\* C27, amended: with no cap set, scrape_reviews returns the records of the
\* collector's items in order, without every record whose key of line 76 is
\* that of an earlier record; it returns one record per raw item exactly when
\* the keys of the records are pairwise distinct.
C27_FinalPassKeepsFirstOfEachKey ==
    pc = "done" /\ limit = None =>
        LET recs == RecordsOf(Val(raw_items))
            rs == Val(reviews)
            keys == {ReviewKey(recs[i]) : i \in 1..Len(recs)}
        IN /\ IsSubsequence(rs, recs)
           /\ Len(rs) = Cardinality(keys)
           /\ \A i, j \in 1..Len(rs) :
                 i # j => ReviewKey(rs[i]) # ReviewKey(rs[j])
           /\ \A i \in 1..Len(recs) : recs[FirstWithKey(recs, i)] \in Range(rs)
           /\ (rs = recs) <=> (Cardinality(keys) = Len(recs))

\* two raw items that differ only in their date text, neither of them a date,
\* were accumulated, and the run returned fewer records than raw items
C27_Witness ==
    /\ pc = "done"
    /\ limit = None
    /\ Len(Val(reviews)) < Len(Val(raw_items))
    /\ \A k \in 1..Len(Val(reviews)) : Val(reviews)[k].date = None
    /\ \E i, j \in 1..Len(Val(raw_items)) :
          /\ Val(raw_items)[i] # Val(raw_items)[j]
          /\ [Val(raw_items)[i] EXCEPT !.date_text = Val(raw_items)[j].date_text]
                = Val(raw_items)[j]

====
